---- MODULE Spec2Model ----
(***************************************************************************)
(* Model of script/power_analysis.py: the VCD switching-activity parser    *)
(* (VCDSwitchingAnalyzer), the synthesis-report scan (DesignStatsExtractor)*)
(* the device model (ICE40PowerModel), the estimator                       *)
(* (GenericPowerEstimator.calculate) and the orchestration in main().      *)
(*                                                                         *)
(* Text is modelled as sequences of one-character strings so that the      *)
(* regular expressions and int() of the source are computed, not assumed.  *)
(* Floating-point numbers are modelled as exact rationals [n, d].  Times   *)
(* are held in nanoseconds and frequencies in MHz so that every            *)
(* intermediate value fits TLC's integers: a rate in toggles per           *)
(* nanosecond is the source's rate in Hz times 1e-9.                       *)
(***************************************************************************)
EXTENDS Integers, Sequences, FiniteSets, TLC

(* ------------------------------ bounds --------------------------------- *)
MaxLines == 3
MaxTicks == 5

(* ------------------------------ rationals ------------------------------ *)
Abs(x) == IF x < 0 THEN -x ELSE x

RECURSIVE GCD(_, _)
GCD(a, b) == IF b = 0 THEN a ELSE GCD(b, a % b)

Rat(n, d) ==
    LET g == GCD(Abs(n), Abs(d))
        s == IF d < 0 THEN -1 ELSE 1
    IN  [n |-> s * (n \div g), d |-> s * (d \div g)]

RZero == [n |-> 0, d |-> 1]
RInt(i) == [n |-> i, d |-> 1]

RMul(a, b) ==
    LET g1 == GCD(Abs(a.n), b.d)
        g2 == GCD(Abs(b.n), a.d)
    IN  Rat((a.n \div g1) * (b.n \div g2), (a.d \div g2) * (b.d \div g1))

RAdd(a, b) ==
    LET g == GCD(a.d, b.d)
    IN  Rat(a.n * (b.d \div g) + b.n * (a.d \div g), (a.d \div g) * b.d)

RInv(a) == Rat(a.d, a.n)
RDiv(a, b) == RMul(a, RInv(b))
RLt(a, b) == a.n * b.d < b.n * a.d
RMax(a, b) == IF RLt(a, b) THEN b ELSE a

(* ------------------------------ characters ----------------------------- *)
DigitChars == <<"0", "1", "2", "3", "4", "5", "6", "7", "8", "9">>
Digit == {DigitChars[i] : i \in 1..10}
DigitVal(c) == (CHOOSE i \in 1..10 : DigitChars[i] = c) - 1
WhiteSpace == {" ", "\t", "\n"}
LogicChar == {"0", "1", "x", "z"}

UpperChars == <<"A", "B", "C", "D", "E", "F", "G", "H", "I", "J", "K", "L", "M",
                "N", "O", "P", "Q", "R", "S", "T", "U", "V", "W", "X", "Y", "Z">>
LowerChars == <<"a", "b", "c", "d", "e", "f", "g", "h", "i", "j", "k", "l", "m",
                "n", "o", "p", "q", "r", "s", "t", "u", "v", "w", "x", "y", "z">>

LowerChar(c) ==
    IF \E i \in 1..26 : UpperChars[i] = c
    THEN LowerChars[CHOOSE i \in 1..26 : UpperChars[i] = c]
    ELSE c

\* str.lower()
Lower(s) == [i \in 1..Len(s) |-> LowerChar(s[i])]

\* the operator `sub in s` on strings
Contains(sub, s) ==
    \E i \in 0..(Len(s) - Len(sub)) : SubSeq(s, i + 1, i + Len(sub)) = sub

\* str.startswith
StartsWith(s, p) == Len(s) >= Len(p) /\ SubSeq(s, 1, Len(p)) = p

RECURSIVE LStrip(_)
LStrip(s) == IF s # <<>> /\ Head(s) \in WhiteSpace THEN LStrip(Tail(s)) ELSE s

RECURSIVE RStrip(_)
RStrip(s) ==
    IF s # <<>> /\ s[Len(s)] \in WhiteSpace THEN RStrip(SubSeq(s, 1, Len(s) - 1)) ELSE s

\* str.strip()
Strip(s) == RStrip(LStrip(s))

\* index of the first position >= p of s whose character is not in cs (Len(s)+1 if none)
RECURSIVE RunEnd(_, _, _)
RunEnd(s, p, cs) == IF p <= Len(s) /\ s[p] \in cs THEN RunEnd(s, p + 1, cs) ELSE p

RECURSIVE DigitsVal(_, _)
DigitsVal(s, acc) ==
    IF s = <<>> THEN acc
    ELSE IF Head(s) = "_" THEN DigitsVal(Tail(s), acc)
    ELSE DigitsVal(Tail(s), 10 * acc + DigitVal(Head(s)))

\* the unsigned body accepted by int(): digits, single underscores between digits
IntBodyOK(s) ==
    /\ Len(s) >= 1
    /\ s[1] \in Digit /\ s[Len(s)] \in Digit
    /\ \A i \in 1..Len(s) : s[i] \in Digit \cup {"_"}
    /\ \A i \in 1..(Len(s) - 1) : ~(s[i] = "_" /\ s[i + 1] = "_")

IntSigned(s) == s # <<>> /\ Head(s) \in {"+", "-"}
IntBody(s) == IF IntSigned(s) THEN Tail(s) ELSE s

\* int(s) succeeds (otherwise it raises ValueError)
PyIntOK(s) == IntBodyOK(IntBody(Strip(s)))

\* the value of int(s)
PyInt(s) ==
    LET t == Strip(s)
        v == DigitsVal(IntBody(t), 0)
    IN  IF IntSigned(t) /\ Head(t) = "-" THEN -v ELSE v

RECURSIVE Decimal(_)
\* str(n) for n >= 0, as written by a simulator for a timestamp
Decimal(n) == IF n < 10 THEN <<DigitChars[n + 1]>> ELSE Decimal(n \div 10) \o <<DigitChars[(n % 10) + 1]>>

(* ------------------------------ dictionaries --------------------------- *)
\* a dict is the sequence of its items [k, v] in insertion order
DictHas(d, k) == \E i \in 1..Len(d) : d[i].k = k
DictGet(d, k, dflt) ==
    IF DictHas(d, k) THEN d[CHOOSE i \in 1..Len(d) : d[i].k = k].v ELSE dflt
DictSet(d, k, v) ==
    IF DictHas(d, k)
    THEN [i \in 1..Len(d) |-> IF d[i].k = k THEN [k |-> k, v |-> v] ELSE d[i]]
    ELSE Append(d, [k |-> k, v |-> v])

RECURSIVE SumValues(_)
SumValues(d) == IF d = <<>> THEN 0 ELSE Head(d).v + SumValues(Tail(d))

\* the absence of a value: no state recorded yet for a signal
NoVal == <<>>
\* no exception
NoErr == "none"

(* ------------------------------ ICE40PowerModel ------------------------ *)
KnownDevices == {"hx1k", "hx4k", "hx8k", "lp1k", "lp4k", "lp8k", "up5k"}

\* STATIC_POWER, mW at 25 C and 1.2 V
STATIC_POWER ==
    [dev \in KnownDevices |->
        CASE dev = "hx1k" -> 15 [] dev = "hx4k" -> 25 [] dev = "hx8k" -> 35
          [] dev = "lp1k" -> 8  [] dev = "lp4k" -> 12 [] dev = "lp8k" -> 18
          [] dev = "up5k" -> 10]

\* __post_init__ (device identifiers are given in lower case, where lower() is the identity)
PostInitDevice(dev) == IF dev \in KnownDevices THEN dev ELSE "hx8k"

\* device.startswith('lp')
IsLowPower(dev) == dev \in {"lp1k", "lp4k", "lp8k"}

RECURSIVE Pow2(_)
Pow2(k) == IF k = 0 THEN RInt(1)
           ELSE IF k > 0 THEN RMul(RInt(2), Pow2(k - 1))
           ELSE RMul(Rat(1, 2), Pow2(k + 1))

\* (voltage_v / 1.2) ** 2
VoltageFactor(m) ==
    LET r == RDiv(m.voltage_v, Rat(12, 10)) IN RMul(r, r)

\* static_power_mw; temp_c is drawn with (temp_c - 25) a multiple of 12
static_power_mw(m) ==
    RMul(RMul(RInt(STATIC_POWER[m.device]), Pow2((m.temp_c - 25) \div 12)), VoltageFactor(m))

lc_dynamic_nj(m) ==
    RMul(IF IsLowPower(m.device) THEN Rat(12, 100) ELSE Rat(15, 100), VoltageFactor(m))

ff_dynamic_nj(m) ==
    RMul(IF IsLowPower(m.device) THEN Rat(8, 100) ELSE Rat(10, 100), VoltageFactor(m))

io_dynamic_nj(m) == RMul(Rat(25, 10), VoltageFactor(m))

clock_tree_mw_per_mhz(m) ==
    RMul(IF IsLowPower(m.device) THEN Rat(6, 100) ELSE Rat(8, 100), VoltageFactor(m))

(* ------------------------------ VCD records ---------------------------- *)
\* re.match(r'^([01xz])(\S+)$', line)
MatchSingle(line) ==
    /\ Len(line) >= 2
    /\ line[1] \in LogicChar
    /\ \A i \in 2..Len(line) : line[i] \notin WhiteSpace

VecBitsEnd(line) == RunEnd(line, 2, LogicChar)
VecSidStart(line) == RunEnd(line, VecBitsEnd(line), WhiteSpace)

\* re.match(r'^[bB]([01xz]+)\s+(\S+)$', line)
MatchVector(line) ==
    /\ Len(line) >= 1
    /\ line[1] \in {"b", "B"}
    /\ VecBitsEnd(line) > 2
    /\ VecSidStart(line) > VecBitsEnd(line)
    /\ VecSidStart(line) <= Len(line)
    /\ \A i \in VecSidStart(line)..Len(line) : line[i] \notin WhiteSpace

\* m = re.match(single) or re.match(vector)
RecordMatch(line) == MatchSingle(line) \/ MatchVector(line)

\* val, sid = m.groups()
RecordVal(line) ==
    IF MatchSingle(line) THEN <<line[1]>> ELSE SubSeq(line, 2, VecBitsEnd(line) - 1)
RecordSid(line) ==
    IF MatchSingle(line) THEN SubSeq(line, 2, Len(line))
    ELSE SubSeq(line, VecSidStart(line), Len(line))

\* 'x' not in val
NoX(val) == \A i \in 1..Len(val) : val[i] # "x"

\* the test of line 153
CountsAsToggle(st, name, val) == DictGet(st, name, NoVal) # val /\ NoX(val)

(* ------------------------------ header --------------------------------- *)
\* units.get(unit, 1e-9), in nanoseconds
UnitNs(unit) ==
    CASE unit = "s"  -> RInt(1000000000)
      [] unit = "ms" -> RInt(1000000)
      [] unit = "us" -> RInt(1000)
      [] unit = "ns" -> RInt(1)
      [] unit = "ps" -> Rat(1, 1000)
      [] OTHER       -> RInt(1)

\* self.timescale after the $timescale search; 1e-9 when there is none
TimescaleOf(hdr) ==
    IF ~hdr.ts.declared THEN RInt(1) ELSE RMul(RInt(hdr.ts.value), UnitNs(hdr.ts.unit))

RECURSIVE SignalMap(_, _)
\* the $var loop: id_to_name[var_id] = name, in file order
SignalMap(decls, d) ==
    IF decls = <<>> THEN d
    ELSE SignalMap(Tail(decls), DictSet(d, Head(decls).id, Head(decls).name))

(* ------------------------------ clock period --------------------------- *)
RECURSIVE JoinLines(_)
\* the text of the value-change section: its lines joined by newlines
JoinLines(lines) ==
    IF lines = <<>> THEN <<>>
    ELSE IF Len(lines) = 1 THEN lines[1]
    ELSE lines[1] \o <<"\n">> \o JoinLines(Tail(lines))

ClockNames == {<<"c", "l", "k">>, <<"c", "l", "o", "c", "k">>, <<"s", "y", "s", "_", "c", "l", "k">>}

\* re.match(r'^(clk|clock|sys_clk)$', name, re.IGNORECASE)
IsClockName(name) == Lower(name) \in ClockNames

RECURSIVE FilterClockIds(_)
\* clock_ids, in the order of id_to_name.items()
FilterClockIds(d) ==
    IF d = <<>> THEN <<>>
    ELSE IF IsClockName(Head(d).v) THEN <<Head(d).k>> \o FilterClockIds(Tail(d))
    ELSE FilterClockIds(Tail(d))

\* the pattern  #(\d+)\s*\n[01]<cid>  matched at position p of text:
\* the digits, the white space (ending in a newline), one of 0/1, the identifier
ClkDigitsEnd(text, p) == RunEnd(text, p + 1, Digit)
ClkSpaceEnd(text, p) == RunEnd(text, ClkDigitsEnd(text, p), WhiteSpace)
ClkMatchEnd(text, p, cid) == ClkSpaceEnd(text, p) + 1 + Len(cid)
ClkMatchAt(text, p, cid) ==
    /\ text[p] = "#"
    /\ ClkDigitsEnd(text, p) > p + 1
    /\ ClkSpaceEnd(text, p) > ClkDigitsEnd(text, p)
    /\ text[ClkSpaceEnd(text, p) - 1] = "\n"
    /\ ClkSpaceEnd(text, p) <= Len(text)
    /\ text[ClkSpaceEnd(text, p)] \in {"0", "1"}
    /\ ClkMatchEnd(text, p, cid) - 1 <= Len(text)
    /\ SubSeq(text, ClkSpaceEnd(text, p) + 1, ClkMatchEnd(text, p, cid) - 1) = cid

RECURSIVE ClockTimes(_, _, _)
\* times = [int(m.group(1)) for m in re.finditer(...)]
ClockTimes(text, p, cid) ==
    IF p > Len(text) THEN <<>>
    ELSE IF ClkMatchAt(text, p, cid)
         THEN <<PyInt(SubSeq(text, p + 1, ClkDigitsEnd(text, p) - 1))>>
                 \o ClockTimes(text, ClkMatchEnd(text, p, cid), cid)
         ELSE ClockTimes(text, p + 1, cid)

RECURSIVE SumSeq(_)
SumSeq(s) == IF s = <<>> THEN 0 ELSE Head(s) + SumSeq(Tail(s))

\* periods = [times[i+2] - times[i] for i in range(len(times)-2)]
Periods(times) == [i \in 1..(Len(times) - 2) |-> times[i + 2] - times[i]]

\* _detect_clock_period, in nanoseconds
DetectClockPeriod(lines, idmap, tscale) ==
    LET clock_ids == FilterClockIds(idmap)
    IN  IF clock_ids = <<>> THEN RZero
        ELSE LET times == ClockTimes(JoinLines(lines), 1, clock_ids[1])
             IN  IF Len(times) >= 3
                 THEN RMul(Rat(SumSeq(Periods(times)), Len(Periods(times))), tscale)
                 ELSE RZero

(* ------------------------------ DesignStatsExtractor ------------------- *)
WordChar(c) == c = "_" \/ c \in Digit \/ (\E i \in 1..26 : c = UpperChars[i] \/ c = LowerChars[i])

SB_LUT4 == <<"S", "B", "_", "L", "U", "T", "4">>
SB_DFF  == <<"S", "B", "_", "D", "F", "F">>
SB_IO   == <<"S", "B", "_", "I", "O">>
SB_GB   == <<"S", "B", "_", "G", "B">>

\* a report line is  <name>: <count> ; a pattern  NAME:\s+(\d+)  is found in it
\* when the name ends with NAME
EndsWith(s, suf) == Len(s) >= Len(suf) /\ SubSeq(s, Len(s) - Len(suf) + 1, Len(s)) = suf

\* the pattern  SB_DFF\w*:\s+(\d+)
EndsWithDFF(s) ==
    \E i \in 1..Len(s) :
        /\ i + Len(SB_DFF) - 1 <= Len(s)
        /\ SubSeq(s, i, i + Len(SB_DFF) - 1) = SB_DFF
        /\ \A j \in (i + Len(SB_DFF))..Len(s) : WordChar(s[j])

RECURSIVE SumLut(_)
SumLut(rep) ==
    IF rep = <<>> THEN 0
    ELSE (IF EndsWith(Head(rep).name, SB_LUT4) THEN Head(rep).n ELSE 0) + SumLut(Tail(rep))

RECURSIVE SumDff(_)
SumDff(rep) ==
    IF rep = <<>> THEN 0
    ELSE (IF EndsWithDFF(Head(rep).name) THEN Head(rep).n ELSE 0) + SumDff(Tail(rep))

RECURSIVE SumIo(_)
SumIo(rep) ==
    IF rep = <<>> THEN 0
    ELSE (IF EndsWith(Head(rep).name, SB_IO) THEN Head(rep).n ELSE 0) + SumIo(Tail(rep))

RECURSIVE SumGb(_)
SumGb(rep) ==
    IF rep = <<>> THEN 0
    ELSE (IF EndsWith(Head(rep).name, SB_GB) THEN Head(rep).n ELSE 0) + SumGb(Tail(rep))

\* the dict returned when there is no report
DefaultStats ==
    << [k |-> "logic_cells", v |-> 100], [k |-> "flip_flops", v |-> 100],
       [k |-> "io_cells", v |-> 10], [k |-> "gb", v |-> 1] >>

\* DesignStatsExtractor.extract; log.exists is false when synth_log is unset or does not exist
ExtractStats(log) ==
    IF ~log.exists THEN DefaultStats
    ELSE LET rep == log.lines IN
         << [k |-> "logic_cells", v |-> SumLut(rep)],
            [k |-> "flip_flops", v |-> SumDff(rep)],
            [k |-> "io_cells", v |-> SumIo(rep)],
            [k |-> "global_buffers", v |-> IF SumGb(rep) = 0 THEN 1 ELSE SumGb(rep)] >>

(* ------------------------------ GenericPowerEstimator ------------------ *)
RECURSIVE AnyContains(_, _)
\* any(x in s for x in subs)
AnyContains(subs, s) ==
    IF subs = <<>> THEN FALSE
    ELSE Contains(Head(subs), s) \/ AnyContains(Tail(subs), s)

FFTokens == << <<"r", "e", "g">>, <<"f", "f">>, <<"d", "f", "f">> >>
PinToken == <<"p", "i", "n">>

\* the if / elif / else of the per-signal loop
Classify(sig) ==
    IF AnyContains(FFTokens, Lower(sig)) THEN "flip_flops"
    ELSE IF Len(sig) <= 3 \/ Contains(PinToken, Lower(sig)) THEN "io"
    ELSE "logic"

\* the energy used for a category
CategoryNj(m, cat) ==
    CASE cat = "flip_flops" -> ff_dynamic_nj(m)
      [] cat = "io"         -> io_dynamic_nj(m)
      [] cat = "logic"      -> lc_dynamic_nj(m)

\* max(1, sum(vcd_toggles.values())/len(vcd_toggles) if vcd_toggles else 1)
MeanToggles(tog) ==
    RMax(RInt(1), IF tog # <<>> THEN Rat(SumValues(tog), Len(tog)) ELSE RInt(1))

\* 1e-6 / (sim_time_s / MeanToggles), in MHz for sim_time in ns
DerivedMhz(tog, sim) == RDiv(RInt(1000), RDiv(sim, MeanToggles(tog)))

\* self.clock_mhz after the first statement of calculate
CalcClockMhz(freq, tog, sim) ==
    IF freq = RZero /\ RLt(RZero, sim) THEN DerivedMhz(tog, sim) ELSE freq

\* clock_tree
ClockTree(m, mhz, st) ==
    RMul(RMul(clock_tree_mw_per_mhz(m), mhz), RInt(DictGet(st, "global_buffers", 1)))

ZeroBreakdown == [logic |-> RZero, flip_flops |-> RZero, io |-> RZero, routing |-> RZero]

\* count * freq_hz * activity * nj * 1e-9, with freq_hz = mhz * 1e6
StatPower(count, mhz, nj) ==
    RMul(RMul(RMul(RInt(count), mhz), RMul(Rat(15, 100), nj)), Rat(1, 1000))

\* the statistical branch
NoTraceBreakdown(m, mhz, st) ==
    [ZeroBreakdown EXCEPT
        !.logic      = StatPower(DictGet(st, "logic_cells", 0), mhz, lc_dynamic_nj(m)),
        !.flip_flops = StatPower(DictGet(st, "flip_flops", 0), mhz, ff_dynamic_nj(m)),
        !.io         = StatPower(DictGet(st, "io_cells", 0), mhz, io_dynamic_nj(m))]

\* rate * nj * 1e-9 with rate = count / sim_time_s
SignalPower(count, sim, nj) == RMul(RDiv(RInt(count), sim), nj)

\* one iteration of the per-signal loop
AddSignal(bd, m, item, sim) ==
    LET cat == Classify(item.k)
    IN  [bd EXCEPT ![cat] = RAdd(@, SignalPower(item.v, sim, CategoryNj(m, cat)))]

\* a routing overhead taken from the logic category alone
RoutingLogicOnly(bd) == RMul(bd.logic, Rat(4, 10))

\* breakdown['routing']
Routing(bd) == RMul(RAdd(bd.logic, bd.flip_flops), Rat(4, 10))

\* dynamic_mw = sum(breakdown.values()) * 1000
DynamicMw(bd) ==
    RMul(RAdd(RAdd(bd.logic, bd.flip_flops), RAdd(bd.io, bd.routing)), RInt(1000))

\* a total that leaves the clock tree out
TotalMwNoClockTree(st, clk, dyn) == RAdd(st, dyn)

\* total_mw
TotalMw(st, clk, dyn) == RAdd(RAdd(st, clk), dyn)

(* ------------------------------ inputs --------------------------------- *)
Id1 == <<"!">>
Id2 == <<"%">>

L_t5    == <<"#", "5">>
L_tbad  == <<"#", "q">>
L_0a    == <<"0", "!">>
L_1a    == <<"1", "!">>
L_xa    == <<"x", "!">>
L_za    == <<"z", "!">>
L_vza   == <<"b", "1", "z", " ", "!">>
L_1b    == <<"1", "%">>
L_junk  == <<"$", "e">>
L_blank == <<" ">>

ScanLines == {L_t5, L_tbad, L_0a, L_1a, L_xa, L_za, L_vza, L_1b, L_junk, L_blank}

N_sig_a   == <<"s", "i", "g", "_", "a">>
N_sig_b   == <<"s", "i", "g", "_", "b">>
N_clk     == <<"c", "l", "k">>
N_SysClk  == <<"S", "y", "s", "_", "C", "l", "k">>
N_clk2    == <<"c", "l", "k", "2">>
N_d       == <<"d", "a", "t", "a">>
N_pin_reg == <<"p", "i", "n", "_", "r", "e", "g">>
N_dat_reg == <<"d", "a", "t", "_", "r", "e", "g">>
N_ab      == <<"a", "b">>
N_pad_x   == <<"p", "a", "d", "_", "x">>
N_sum_q   == <<"s", "u", "m", "_", "q">>
N_PIN_A   == <<"P", "I", "N", "_", "A">>

SignalNames == {N_pin_reg, N_dat_reg, N_ab, N_pad_x, N_sum_q, N_PIN_A}

Decls(n1, n2) == << [id |-> Id1, name |-> n1], [id |-> Id2, name |-> n2] >>

\* traces of the estimator runs: no timestamp, three timestamps, empty, timestamp only
T_nots  == << L_0a, L_1b >>
T_run   == << <<"#", "0">>, L_0a, L_1b, <<"#", "1", "0">>, L_1a,
              <<"#", "2", "0">>, L_0a, <<"0", "%">> >>
T_short == << <<"#", "0">>, L_0a, <<"#", "4">>, L_1a >>
T_empty == << >>
T_tonly == << <<"#", "8">> >>
MainTraces == {T_nots, T_run, T_short, T_empty, T_tonly}

\* a clock trace: at tick i (time 5*(i-1)) the clock record alone ("clk"), the
\* other signal's record before it ("other_clk"), or the other signal only ("other")
TickKinds == {"clk", "other_clk", "other"}
Bit(i) == IF i % 2 = 1 THEN "1" ELSE "0"
TickLines(i, kind) ==
    LET ts  == <<"#">> \o Decimal(5 * (i - 1))
        clk == <<Bit(i)>> \o Id1
        oth == <<Bit(i)>> \o Id2
    IN  CASE kind = "clk"       -> <<ts, clk>>
          [] kind = "other_clk" -> <<ts, oth, clk>>
          [] kind = "other"     -> <<ts, oth>>

RECURSIVE ClockTrace(_, _)
ClockTrace(kinds, i) ==
    IF i > Len(kinds) THEN <<>> ELSE TickLines(i, kinds[i]) \o ClockTrace(kinds, i + 1)

SeqsUpTo(S, n) == UNION {[1..k -> S] : k \in 0..n}

Report(lut, dff, io, gb) ==
    << [name |-> SB_LUT4, n |-> lut], [name |-> SB_DFF \o <<"E">>, n |-> dff],
       [name |-> SB_IO, n |-> io], [name |-> SB_GB, n |-> gb] >>
RepNoGb == << [name |-> SB_LUT4, n |-> 3], [name |-> SB_DFF, n |-> 2],
              [name |-> SB_DFF \o <<"S", "R">>, n |-> 1], [name |-> SB_IO, n |-> 4] >>
RepNone == << [name |-> <<"S", "B", "_", "C", "A", "R", "R", "Y">>, n |-> 7] >>
NoLog == [exists |-> FALSE, lines |-> <<>>]
Log(rep) == [exists |-> TRUE, lines |-> rep]
Reports == {NoLog, Log(<<>>), Log(RepNone), Log(RepNoGb), Log(Report(5, 2, 3, 2))}

DefaultArgs == [freq |-> RZero, device |-> "hx8k", temp_c |-> 25, voltage_v |-> Rat(12, 10)]
Conditions ==
    { DefaultArgs,
      [freq |-> RInt(50), device |-> "lp1k", temp_c |-> 37, voltage_v |-> Rat(12, 10)],
      [freq |-> RInt(50), device |-> "zz9k", temp_c |-> 25, voltage_v |-> Rat(24, 10)],
      [freq |-> RZero, device |-> "up5k", temp_c |-> 13, voltage_v |-> Rat(6, 10)] }

(* ------------------------------ state ---------------------------------- *)
VARIABLES
    vcd,           \* "none": no trace given, "missing": the path does not exist, "file"
    header,        \* the declarations of the trace: [ts, vars]
    content,       \* the lines of the value-change section
    synth,         \* the synthesis report: [exists, lines]
    argv,          \* the command-line arguments
    pc,
    err,           \* the exception that ended the run, or NoErr
    stats, model, args_freq,
    timescale, total_time, clock_period, id_to_name,
    toggles, states, current_time, idx,
    sim_time, clock_mhz, static, clock_tree, breakdown, sig_i, dynamic_mw, total_mw

inputs == <<vcd, header, content, synth, argv>>
mainVars == <<stats, model, args_freq, sim_time>>
parserVars == <<timescale, total_time, clock_period, id_to_name>>
scanVars == <<toggles, states, current_time, idx>>
calcVars == <<clock_mhz, static, clock_tree, breakdown, sig_i, dynamic_mw, total_mw>>
vars == <<inputs, pc, err, mainVars, parserVars, scanVars, calcVars>>

NoTimescale == [declared |-> FALSE, value |-> 1, unit |-> "ns"]
Timescale(v, u) == [declared |-> TRUE, value |-> v, unit |-> u]
NoHeader == [ts |-> NoTimescale, vars |-> <<>>]
NoModel == [device |-> "", temp_c |-> 25, voltage_v |-> Rat(12, 10)]

\* the state at the start of main(), after argparse
Start ==
    /\ pc = "extract" /\ err = NoErr
    /\ stats = <<>> /\ model = NoModel /\ args_freq = argv.freq
    /\ timescale = RInt(1) /\ total_time = 0 /\ clock_period = RZero /\ id_to_name = <<>>
    /\ toggles = <<>> /\ states = <<>> /\ current_time = 0 /\ idx = 1
    /\ sim_time = RZero /\ clock_mhz = RZero /\ static = RZero /\ clock_tree = RZero
    /\ breakdown = ZeroBreakdown /\ sig_i = 1 /\ dynamic_mw = RZero /\ total_mw = RZero

\* traces of every shape over the record forms, two declared signals
InitScan ==
    /\ vcd = "file"
    /\ header = [ts |-> NoTimescale, vars |-> Decls(N_sig_a, N_sig_b)]
    /\ content \in SeqsUpTo(ScanLines, MaxLines)
    /\ synth = NoLog
    /\ argv = DefaultArgs

\* clock traces
InitClock ==
    /\ vcd = "file"
    /\ \E cn \in {N_clk, N_SysClk, N_clk2}, ts \in {NoTimescale, Timescale(10, "ps")} :
          header = [ts |-> ts, vars |-> Decls(cn, N_d)]
    /\ \E kinds \in SeqsUpTo(TickKinds, MaxTicks) : content = ClockTrace(kinds, 1)
    /\ synth = NoLog
    /\ argv = DefaultArgs

\* estimator runs: with and without trace and report, named signals, operating conditions
InitMain ==
    /\ vcd \in {"none", "missing", "file"}
    /\ IF vcd = "file"
       THEN /\ \E n1 \in SignalNames, n2 \in SignalNames :
                  header = [ts |-> Timescale(1, "ns"), vars |-> Decls(n1, n2)]
            /\ content \in MainTraces
       ELSE header = NoHeader /\ content = <<>>
    /\ synth \in Reports
    /\ argv \in Conditions

Init == (InitScan \/ InitClock \/ InitMain) /\ Start

(* ------------------------------ main() --------------------------------- *)
\* stats = DesignStatsExtractor(...).extract()
Extract ==
    /\ pc = "extract"
    /\ stats' = ExtractStats(synth)
    /\ pc' = "model"
    /\ UNCHANGED <<inputs, err, model, args_freq, sim_time, parserVars, scanVars, calcVars>>

\* model = ICE40PowerModel(device, temp_c, voltage_v), with __post_init__
NewModel ==
    /\ pc = "model"
    /\ model' = [device |-> PostInitDevice(argv.device), temp_c |-> argv.temp_c,
                 voltage_v |-> argv.voltage_v]
    /\ pc' = "vcd"
    /\ UNCHANGED <<inputs, err, stats, args_freq, sim_time, parserVars, scanVars, calcVars>>

\* if vcd_f: is false; toggles = {} and sim_time = 0
NoVcd ==
    /\ pc = "vcd" /\ vcd = "none"
    /\ pc' = "calc"
    /\ UNCHANGED <<inputs, err, mainVars, parserVars, scanVars, calcVars>>

\* parse_vcd on a path that does not exist returns {}; total_time and clock_period stay 0
ParseMissing ==
    /\ pc = "vcd" /\ vcd = "missing"
    /\ pc' = "parsed"
    /\ UNCHANGED <<inputs, err, mainVars, parserVars, scanVars, calcVars>>

\* after parse_vcd: sim_time, and the frequency derived from the detected clock period
MainFreq ==
    /\ pc = "parsed"
    /\ sim_time' = RMul(RInt(total_time), timescale)
    /\ args_freq' = IF args_freq = RZero /\ RLt(RZero, clock_period)
                    THEN RDiv(RInt(1000), clock_period)
                    ELSE args_freq
    /\ pc' = "calc"
    /\ UNCHANGED <<inputs, err, stats, model, parserVars, scanVars, calcVars>>

(* ------------------------------ parse_vcd ------------------------------ *)
\* the timescale search and the $var loop
ParseHeader ==
    /\ pc = "vcd" /\ vcd = "file"
    /\ timescale' = TimescaleOf(header)
    /\ id_to_name' = SignalMap(header.vars, <<>>)
    /\ pc' = "detect"
    /\ UNCHANGED <<inputs, err, mainVars, total_time, clock_period, scanVars, calcVars>>

\* self.clock_period = self._detect_clock_period(content)
DetectClock ==
    /\ pc = "detect"
    /\ clock_period' = DetectClockPeriod(content, id_to_name, timescale)
    /\ pc' = "scan"
    /\ UNCHANGED <<inputs, err, mainVars, timescale, total_time, id_to_name, scanVars, calcVars>>

(* ------------------------------ _count_toggles ------------------------- *)
AtLine == pc = "scan" /\ idx <= Len(content)
\* line = line.strip()
CurLine == Strip(content[idx])

\* if not line: continue
ScanBlank ==
    /\ AtLine /\ CurLine = <<>>
    /\ idx' = idx + 1
    /\ UNCHANGED <<inputs, pc, err, mainVars, parserVars, toggles, states, current_time, calcVars>>

\* a line starting with '#': current_time = int(line[1:]) and the running maximum
ScanTimestamp ==
    /\ AtLine /\ CurLine # <<>> /\ StartsWith(CurLine, <<"#">>)
    /\ PyIntOK(Tail(CurLine))
    /\ current_time' = PyInt(Tail(CurLine))
    /\ total_time' = IF current_time' > total_time THEN current_time' ELSE total_time
    /\ idx' = idx + 1
    /\ UNCHANGED <<inputs, pc, err, mainVars, timescale, clock_period, id_to_name,
                   toggles, states, calcVars>>

\* int(line[1:]) raises ValueError, which nothing catches
ScanBadTimestamp ==
    /\ AtLine /\ CurLine # <<>> /\ StartsWith(CurLine, <<"#">>)
    /\ ~PyIntOK(Tail(CurLine))
    /\ err' = "ValueError"
    /\ pc' = "raised"
    /\ UNCHANGED <<inputs, mainVars, parserVars, scanVars, calcVars>>

\* a value-change record of a declared identifier
ScanRecord ==
    /\ AtLine /\ CurLine # <<>> /\ ~StartsWith(CurLine, <<"#">>)
    /\ RecordMatch(CurLine)
    /\ DictHas(id_to_name, RecordSid(CurLine))
    /\ LET val  == RecordVal(CurLine)
           name == DictGet(id_to_name, RecordSid(CurLine), NoVal)
       IN  IF CountsAsToggle(states, name, val)
           THEN /\ toggles' = DictSet(toggles, name, DictGet(toggles, name, 0) + 1)
                /\ states' = DictSet(states, name, val)
           ELSE UNCHANGED <<toggles, states>>
    /\ idx' = idx + 1
    /\ UNCHANGED <<inputs, pc, err, mainVars, parserVars, current_time, calcVars>>

\* a line that matches neither pattern, or names an undeclared identifier
ScanSkip ==
    /\ AtLine /\ CurLine # <<>> /\ ~StartsWith(CurLine, <<"#">>)
    /\ ~(RecordMatch(CurLine) /\ DictHas(id_to_name, RecordSid(CurLine)))
    /\ idx' = idx + 1
    /\ UNCHANGED <<inputs, pc, err, mainVars, parserVars, toggles, states, current_time, calcVars>>

\* the loop is over: return toggles
ScanReturn ==
    /\ pc = "scan" /\ idx > Len(content)
    /\ pc' = "parsed"
    /\ UNCHANGED <<inputs, err, mainVars, parserVars, scanVars, calcVars>>

(* ------------------------------ calculate ------------------------------ *)
\* the frequency, static, clock_tree and the empty breakdown
CalcStart ==
    /\ pc = "calc"
    /\ clock_mhz' = CalcClockMhz(args_freq, toggles, sim_time)
    /\ static' = static_power_mw(model)
    /\ clock_tree' = ClockTree(model, clock_mhz', stats)
    /\ breakdown' = ZeroBreakdown
    /\ sig_i' = 1
    /\ pc' = IF toggles = <<>> THEN "notrace" ELSE "loop"
    /\ UNCHANGED <<inputs, err, mainVars, parserVars, scanVars, dynamic_mw, total_mw>>

\* if not vcd_toggles: the statistical estimate
CalcNoTrace ==
    /\ pc = "notrace"
    /\ breakdown' = NoTraceBreakdown(model, clock_mhz, stats)
    /\ pc' = "finish"
    /\ UNCHANGED <<inputs, err, mainVars, parserVars, scanVars,
                   clock_mhz, static, clock_tree, sig_i, dynamic_mw, total_mw>>

\* one iteration of  for sig, count in vcd_toggles.items()
CalcSignal ==
    /\ pc = "loop" /\ sim_time # RZero
    /\ breakdown' = AddSignal(breakdown, model, toggles[sig_i], sim_time)
    /\ sig_i' = sig_i + 1
    /\ pc' = IF sig_i = Len(toggles) THEN "finish" ELSE "loop"
    /\ UNCHANGED <<inputs, err, mainVars, parserVars, scanVars,
                   clock_mhz, static, clock_tree, dynamic_mw, total_mw>>

\* rate = count / sim_time_s with sim_time_s = 0 raises ZeroDivisionError
CalcSignalZeroTime ==
    /\ pc = "loop" /\ sim_time = RZero
    /\ err' = "ZeroDivisionError"
    /\ pc' = "raised"
    /\ UNCHANGED <<inputs, mainVars, parserVars, scanVars, calcVars>>

\* routing, dynamic_mw, total_mw and the report
CalcFinish ==
    /\ pc = "finish"
    /\ breakdown' = [breakdown EXCEPT !.routing = Routing(breakdown)]
    /\ dynamic_mw' = DynamicMw(breakdown')
    /\ total_mw' = TotalMw(static, clock_tree, dynamic_mw')
    /\ pc' = "done"
    /\ UNCHANGED <<inputs, err, mainVars, parserVars, scanVars,
                   clock_mhz, static, clock_tree, sig_i>>

Next ==
    \/ Extract \/ NewModel \/ NoVcd \/ ParseMissing \/ MainFreq
    \/ ParseHeader \/ DetectClock
    \/ ScanBlank \/ ScanTimestamp \/ ScanBadTimestamp \/ ScanRecord \/ ScanSkip \/ ScanReturn
    \/ CalcStart \/ CalcNoTrace \/ CalcSignal \/ CalcSignalZeroTime \/ CalcFinish

Spec == Init /\ [][Next]_vars

(* ====================== properties of the value-change scan ============= *)
HasUndefined(val) == \E i \in 1..Len(val) : val[i] \in {"x", "z"}
Defined(val) == ~HasUndefined(val)

\* the current line is a value-change record of a declared signal
AtKnownRecord ==
    /\ AtLine /\ CurLine # <<>> /\ ~StartsWith(CurLine, <<"#">>)
    /\ RecordMatch(CurLine)
    /\ DictHas(id_to_name, RecordSid(CurLine))

\* C1: a record of a declared signal whose value contains an x or z bit changes
\* neither the toggle counts nor the last recorded states.
C1_UndefinedRecordSkipped ==
    [][(AtKnownRecord /\ HasUndefined(RecordVal(CurLine)))
          => (toggles' = toggles /\ states' = states)]_vars

\* the scan of an existing trace file has returned
ScanFinished == vcd = "file" /\ pc \in {"parsed", "calc", "notrace", "loop", "finish", "done"}

RECURSIVE DefinedChanges(_, _, _, _)
\* the number of defined-to-defined value changes of signal name in lines, replayed
\* in order; last is the previous defined value of the signal (NoVal when none)
DefinedChanges(lines, idmap, name, last) ==
    IF lines = <<>> THEN 0
    ELSE LET l == Strip(Head(lines))
             isRec == /\ l # <<>> /\ Head(l) # "#" /\ RecordMatch(l)
                      /\ DictHas(idmap, RecordSid(l))
                      /\ DictGet(idmap, RecordSid(l), NoVal) = name
                      /\ Defined(RecordVal(l))
         IN  IF isRec
             THEN (IF last # NoVal /\ last # RecordVal(l) THEN 1 ELSE 0)
                    + DefinedChanges(Tail(lines), idmap, name, RecordVal(l))
             ELSE DefinedChanges(Tail(lines), idmap, name, last)

DeclaredNames == {header.vars[i].name : i \in 1..Len(header.vars)}

\* C2: when the scan returns, each signal's toggle count is the number of its
\* defined-to-defined value changes; a first value and a repeated value are no toggles.
C2_CountIsDefinedChanges ==
    ScanFinished =>
        \A name \in DeclaredNames :
            DictGet(toggles, name, 0) = DefinedChanges(content, id_to_name, name, NoVal)

\* a timestamp marker #<integer> or a value-change record
WellFormed(line) ==
    LET l == Strip(line)
    IN  /\ l # <<>>
        /\ IF Head(l) = "#" THEN PyIntOK(Tail(l)) ELSE RecordMatch(l)

RECURSIVE KeepWellFormed(_)
KeepWellFormed(lines) ==
    IF lines = <<>> THEN <<>>
    ELSE (IF WellFormed(Head(lines)) THEN <<Head(lines)>> ELSE <<>>)
            \o KeepWellFormed(Tail(lines))

RECURSIVE ScanAll(_, _, _)
\* the result of the scan on lines that are all well formed: [toggles, states, total_time]
ScanAll(lines, idmap, st) ==
    IF lines = <<>> THEN st
    ELSE LET l == Strip(Head(lines))
             name == DictGet(idmap, RecordSid(l), NoVal)
         IN  IF Head(l) = "#"
             THEN ScanAll(Tail(lines), idmap,
                          [st EXCEPT !.total_time = IF PyInt(Tail(l)) > @ THEN PyInt(Tail(l)) ELSE @])
             ELSE IF DictHas(idmap, RecordSid(l)) /\ CountsAsToggle(st.states, name, RecordVal(l))
             THEN ScanAll(Tail(lines), idmap,
                          [st EXCEPT !.toggles = DictSet(@, name, DictGet(@, name, 0) + 1),
                                     !.states = DictSet(@, name, RecordVal(l))])
             ELSE ScanAll(Tail(lines), idmap, st)

\* C6: the scan never raises on malformed text; a malformed line is skipped and the
\* result is that of the same trace without its malformed lines.
C6_MalformedLineSkipped ==
    /\ err # "ValueError"
    /\ ScanFinished =>
          LET r == ScanAll(KeepWellFormed(content), id_to_name,
                           [toggles |-> <<>>, states |-> <<>>, total_time |-> 0])
          IN  toggles = r.toggles /\ total_time = r.total_time

(* ====================== properties of the clock detection =============== *)
RECURSIVE EdgeTimes(_, _, _)
\* the timestamps of the 0/1 records of identifier cid, in order
EdgeTimes(lines, cid, now) ==
    IF lines = <<>> THEN <<>>
    ELSE LET l == Strip(Head(lines))
         IN  IF l # <<>> /\ Head(l) = "#" /\ PyIntOK(Tail(l))
             THEN EdgeTimes(Tail(lines), cid, PyInt(Tail(l)))
             ELSE IF l # <<>> /\ MatchSingle(l) /\ RecordSid(l) = cid /\ l[1] \in {"0", "1"}
             THEN <<now>> \o EdgeTimes(Tail(lines), cid, now)
             ELSE EdgeTimes(Tail(lines), cid, now)

ClockDetected == vcd = "file" /\ pc \notin {"extract", "model", "vcd", "detect", "raised"}

\* C9: with a clock-named signal that has at least three edges, the detected period
\* is the average of t[i+2] - t[i] over its edge timestamps times the timescale,
\* wherever the clock records sit among the other records; otherwise it is 0.
C9_PeriodFromClockEdges ==
    ClockDetected =>
        LET ids == FilterClockIds(id_to_name)
            t   == IF ids = <<>> THEN <<>> ELSE EdgeTimes(content, ids[1], 0)
        IN  IF Len(t) >= 3
            THEN clock_period = RMul(Rat(SumSeq(Periods(t)), Len(t) - 2), timescale)
            ELSE clock_period = RZero

(* ====================== properties of the estimate ====================== *)
IOTokens == << <<"p", "i", "n">>, <<"p", "a", "d">>, <<"i", "o", "_">>,
               <<"p", "o", "r", "t", "_">> >>

\* the category by the I/O-first rule
IoFirstCategory(sig) ==
    IF AnyContains(IOTokens, Lower(sig)) THEN "io"
    ELSE IF AnyContains(FFTokens, Lower(sig)) THEN "flip_flops"
    ELSE "logic"

RECURSIVE IoFirstSum(_, _)
\* the power of the signals of tog that the I/O-first rule puts in category cat
IoFirstSum(tog, cat) ==
    IF tog = <<>> THEN RZero
    ELSE RAdd(IF IoFirstCategory(Head(tog).k) = cat
              THEN RMul(Rat(Head(tog).v * sim_time.d, sim_time.n), CategoryNj(model, cat))
              ELSE RZero,
              IoFirstSum(Tail(tog), cat))

\* C3: with a trace, every signal contributes to exactly the category of the
\* I/O-first rule: I/O tokens, then flip-flop tokens, else logic.
C3_IoTestedBeforeFlipFlop ==
    (pc = "done" /\ toggles # <<>>) =>
        /\ breakdown.io = IoFirstSum(toggles, "io")
        /\ breakdown.flip_flops = IoFirstSum(toggles, "flip_flops")
        /\ breakdown.logic = IoFirstSum(toggles, "logic")

\* the global-buffer count of the profile
GlobalBuffers(st) ==
    IF DictHas(st, "global_buffers") THEN DictGet(st, "global_buffers", 0)
    ELSE DictGet(st, "gb", 0)

\* C4: for every computed breakdown dynamicMw is the sum of the four categories in
\* milliwatts, totalMw = staticMw + clockTreeMw + dynamicMw, and
\* clockTreeMw = clockTreeMwPerMhz * frequencyMhz * globalBuffers.
C4_TotalsAddUp ==
    pc = "done" =>
        /\ dynamic_mw = RAdd(RAdd(RMul(RInt(1000), breakdown.logic),
                                  RMul(RInt(1000), breakdown.flip_flops)),
                             RAdd(RMul(RInt(1000), breakdown.io),
                                  RMul(RInt(1000), breakdown.routing)))
        /\ total_mw = RAdd(static, RAdd(clock_tree, dynamic_mw))
        /\ clock_tree = RMul(clock_tree_mw_per_mhz(model),
                             RMul(clock_mhz, RInt(GlobalBuffers(stats))))

\* a breakdown computed from a trace with every term non-zero
C4_Witness ==
    /\ pc = "done" /\ toggles # <<>>
    /\ breakdown.routing # RZero /\ breakdown.io # RZero
    /\ clock_tree # RZero /\ static # RZero

InCalculate == pc \in {"notrace", "loop", "finish", "done"}

\* C5: a zero simulation duration never reaches the per-signal division: the run
\* takes the statistical path and ends with a power figure.
C5_ZeroDurationFallsBack ==
    /\ err # "ZeroDivisionError"
    /\ (InCalculate /\ sim_time = RZero) => pc # "loop"

\* C7: a supplied frequency is used unchanged; without one, the frequency is
\* 1e-6 / periodSeconds when a clock period was detected and 100 MHz otherwise.
C7_FrequencySelection ==
    InCalculate =>
        IF argv.freq # RZero THEN clock_mhz = argv.freq
        ELSE IF RLt(RZero, clock_period) THEN clock_mhz = RDiv(RInt(1000), clock_period)
        ELSE clock_mhz = RInt(100)

\* no line of the report carries a recognised resource count
NoResourcePattern(rep) ==
    \A i \in 1..Len(rep) :
        /\ ~EndsWith(rep[i].name, SB_LUT4) /\ ~EndsWithDFF(rep[i].name)
        /\ ~EndsWith(rep[i].name, SB_IO) /\ ~EndsWith(rep[i].name, SB_GB)

\* C8: without a report, or with a report without resource patterns, the profile is
\* the non-zero default one; the global-buffer factor is at least 1 in every case.
C8_DefaultProfile ==
    pc # "extract" =>
        /\ (~synth.exists \/ NoResourcePattern(synth.lines)) =>
              /\ DictGet(stats, "logic_cells", 0) = 100
              /\ DictGet(stats, "flip_flops", 0) = 100
              /\ DictGet(stats, "io_cells", 0) = 10
        /\ DictGet(stats, "global_buffers", 1) >= 1

\* count * frequencyHz * 0.15 * energyPerToggleNj * 1e-9, in watts
StatisticalPower(count, nj) ==
    RMul(Rat(count * 15, 100000), RMul(clock_mhz, nj))

NoTraceCategories ==
    /\ breakdown.logic = StatisticalPower(DictGet(stats, "logic_cells", 0), lc_dynamic_nj(model))
    /\ breakdown.flip_flops = StatisticalPower(DictGet(stats, "flip_flops", 0), ff_dynamic_nj(model))
    /\ breakdown.io = StatisticalPower(DictGet(stats, "io_cells", 0), io_dynamic_nj(model))

\* C10 as stated: in the statistical path the three categories follow the formula
\* and the routing category stays 0.
C10_NoRoutingWithoutTrace ==
    (pc = "done" /\ toggles = <<>>) =>
        /\ NoTraceCategories
        /\ breakdown.routing = RZero

\* C10 amended: in the statistical path the three categories follow the formula, and
\* the routing overhead 0.4 * (logic + flip_flops) is applied on both paths.
C10_RoutingOnBothPaths ==
    pc = "done" =>
        /\ toggles = <<>> => NoTraceCategories
        /\ breakdown.routing = RMul(Rat(2, 5), RAdd(breakdown.flip_flops, breakdown.logic))

\* a statistical estimate with a routing overhead
C10_Witness ==
    /\ pc = "done" /\ toggles = <<>>
    /\ breakdown.routing # RZero /\ breakdown.io # RZero

====
